---- MODULE Spec2Model ----
(***************************************************************************)
(* Car Marketplace API (src/main.py, src/schemas.py).                      *)
(*                                                                         *)
(* The state is the content of the document store's collections car,       *)
(* order, notification, transaction and reward, the last HTTP response,    *)
(* and, for the concurrent view of POST /transactions, the position and    *)
(* the locals of each worker that is inside create_transaction.            *)
(*                                                                         *)
(* Identifier strings are modelled by integers: n >= 1 stands for the      *)
(* 24-hex-digit string of the n-th ObjectId generated in a collection,     *)
(* n <= 0 for a string that bson.ObjectId() refuses.                       *)
(***************************************************************************)
EXTENDS Integers, Sequences, FiniteSets, TLC

VARIABLES car, order, notification, transaction, reward, response, pc, local

vars == <<car, order, notification, transaction, reward, response, pc, local>>

marketVars == <<car, order, notification>>
rewardVars == <<transaction, reward>>
workerVars == <<pc, local>>

(***************************************************************************)
(* Bounds of the model.                                                    *)
(***************************************************************************)
\* Documents the car and order collections hold together.
MaxDocs == 3
\* Documents the transaction collection holds.
MaxTx == 3

(***************************************************************************)
(* Input domains.                                                          *)
(***************************************************************************)
Emails == {"ann@x.io", "bob@x.io"}
CarOwners == {"ann@x.io"}
Customers == {"cat@x.io"}
Amounts == {-5, 0, 95, 590, 600, 1000}
Workers == {"w1", "w2"}

\* Strings that are not ObjectIds.
MalformedIds == {0}

\* schemas.py: Literal types of Order.order_type and Order.status.
OrderTypeLiteral == {"rent", "buy"}
StatusLiteral == {"pending", "accepted", "rejected", "completed"}

\* A status string outside the Literal.
OtherStatuses == {"archived"}

(***************************************************************************)
(* bson.ObjectId(s): accepts a 24-hex-digit string, raises InvalidId       *)
(* otherwise.                                                              *)
(***************************************************************************)
IsObjectId(s) == s >= 1

(***************************************************************************)
(* The store adapter.                                                      *)
(***************************************************************************)
\* insert(collection, doc) -> id: the document is appended under a fresh id.
NewId(coll) == Len(coll) + 1

create_document(coll, doc) == Append(coll, [id |-> NewId(coll)] @@ doc)

\* find_one({"_id": oid}): position of the first match, 0 for None.
FindById(coll, oid) ==
    IF \E i \in 1..Len(coll) : coll[i].id = oid
    THEN CHOOSE i \in 1..Len(coll) :
            /\ coll[i].id = oid
            /\ \A j \in 1..(i - 1) : coll[j].id # oid
    ELSE 0

\* find_one({"email": e}): position of the first match, 0 for None.
FindByEmail(coll, e) ==
    IF \E i \in 1..Len(coll) : coll[i].email = e
    THEN CHOOSE i \in 1..Len(coll) :
            /\ coll[i].email = e
            /\ \A j \in 1..(i - 1) : coll[j].email # e
    ELSE 0

\* update_one({"_id": oid}, {"$set": fields}): the first match gets the fields.
update_one(coll, oid, fields) ==
    LET i == FindById(coll, oid) IN
    IF i = 0 THEN coll ELSE [coll EXCEPT ![i] = fields @@ coll[i]]

matched_count(coll, oid) == IF FindById(coll, oid) = 0 THEN 0 ELSE 1

(***************************************************************************)
(* schemas.py: model construction from a request payload.  A payload is a  *)
(* record that may leave out the fields that have a default.               *)
(***************************************************************************)
Get(payload, field, default) ==
    IF field \in DOMAIN payload THEN payload[field] ELSE default

Car(payload) ==
    [owner_email |-> payload.owner_email,
     for_rent    |-> Get(payload, "for_rent", TRUE),
     for_sale    |-> Get(payload, "for_sale", FALSE)]

\* Literal[...] validation of the Order fields: FastAPI answers 422 otherwise.
OrderValid(payload) ==
    /\ payload.order_type \in OrderTypeLiteral
    /\ Get(payload, "status", "pending") \in StatusLiteral

Order(payload) ==
    [order_type  |-> payload.order_type,
     car_id      |-> payload.car_id,
     customer_email |-> payload.customer_email,
     owner_email |-> payload.owner_email,
     status      |-> Get(payload, "status", "pending")]

Notification(email, title, message) ==
    [email |-> email, title |-> title, message |-> message, read |-> FALSE]

Reward(email, points) ==
    [email |-> email, points |-> points, tier |-> "Bronze"]

Transaction(payload) ==
    [customer_email |-> payload.customer_email, amount |-> payload.amount]

(***************************************************************************)
(* Request payloads.                                                       *)
(***************************************************************************)
CarPayloads ==
    [owner_email : CarOwners, for_rent : BOOLEAN, for_sale : BOOLEAN]
      \cup [owner_email : CarOwners, for_rent : BOOLEAN]
      \cup [owner_email : CarOwners, for_sale : BOOLEAN]
      \cup [owner_email : CarOwners]

CarIdStrings == MalformedIds \cup (1..MaxDocs)
OrderIdStrings == MalformedIds \cup (1..MaxDocs)

\* Order payloads: the status field is optional.
OrderTypes == {"rent"}
PayloadStatuses == {"completed"} \cup OtherStatuses

OrderPayloads ==
    [order_type : OrderTypes, car_id : CarIdStrings,
     customer_email : Customers, owner_email : Emails]
      \cup [order_type : OrderTypes, car_id : CarIdStrings,
            customer_email : Customers, owner_email : Emails,
            status : PayloadStatuses]

\* Status strings sent to POST /orders/{order_id}/status.
StatusStrings == {"pending", "completed"} \cup OtherStatuses

TxPayloads == [customer_email : Emails, amount : Amounts]

Resp(op, code, id) == [op |-> op, code |-> code, id |-> id]

(***************************************************************************)
(* POST /cars                                                              *)
(***************************************************************************)
\* Mutant: a car is refused unless it is both for sale and for rent.
CarRejected_UnlessBoth(c) == ~(c.for_sale /\ c.for_rent)

\* if not (car.for_sale or car.for_rent): raise HTTPException(400)
CarRejected(c) == ~(c.for_sale \/ c.for_rent)

create_car(payload) ==
    LET c == Car(payload) IN
    /\ IF CarRejected(c)
       THEN /\ response' = Resp("create_car", 400, 0)
            /\ car' = car
       ELSE /\ Len(car) + Len(order) < MaxDocs
            /\ car' = create_document(car, c)
            /\ response' = Resp("create_car", 200, NewId(car))
    /\ UNCHANGED <<order, notification, rewardVars, workerVars>>

(***************************************************************************)
(* POST /orders                                                            *)
(***************************************************************************)
\* car = db["car"].find_one({"_id": ObjectId(order.car_id)}); if not car: 404
CarFound(car_id) == FindById(car, car_id) # 0

\* Mutant: the notification goes to the customer who placed the order.
OwnerNotification_ToCustomer(payload) ==
    Notification(payload.customer_email, "New order",
                 <<"You have a new", payload.order_type, "request">>)

\* Notification(email=order.owner_email, title="New order", message=f"...")
OwnerNotification(payload) ==
    Notification(payload.owner_email, "New order",
                 <<"You have a new", payload.order_type, "request">>)

create_order(payload) ==
    /\ IF ~OrderValid(payload)
       THEN /\ response' = Resp("create_order", 422, 0)
            /\ UNCHANGED <<order, notification>>
       ELSE IF ~IsObjectId(payload.car_id)
       THEN /\ response' = Resp("create_order", 500, 0)
            /\ UNCHANGED <<order, notification>>
       ELSE IF ~CarFound(payload.car_id)
       THEN /\ response' = Resp("create_order", 404, 0)
            /\ UNCHANGED <<order, notification>>
       ELSE /\ Len(car) + Len(order) < MaxDocs
            /\ order' = create_document(order, Order(payload))
            /\ notification' = create_document(notification, OwnerNotification(payload))
            /\ response' = Resp("create_order", 200, NewId(order))
    /\ UNCHANGED <<car, rewardVars, workerVars>>

(***************************************************************************)
(* POST /orders/{order_id}/status                                          *)
(***************************************************************************)
update_order_status(order_id, status) ==
    /\ IF ~IsObjectId(order_id)
       THEN /\ response' = Resp("update_order_status", 500, 0)
            /\ order' = order
       ELSE /\ order' = update_one(order, order_id, [status |-> status])
            /\ response' = IF matched_count(order, order_id) = 0
                           THEN Resp("update_order_status", 404, 0)
                           ELSE Resp("update_order_status", 200, 0)
    /\ UNCHANGED <<car, notification, rewardVars, workerVars>>

(***************************************************************************)
(* Initial state: an empty store, no request answered, every worker idle.  *)
(***************************************************************************)
NoLocal == [email |-> "", pts |-> 0, tx_id |-> 0, existing |-> [id |-> 0, points |-> 0]]

Init ==
    /\ car = <<>>
    /\ order = <<>>
    /\ notification = <<>>
    /\ transaction = <<>>
    /\ reward = <<>>
    /\ response = Resp("none", 0, 0)
    /\ pc = [w \in Workers |-> "idle"]
    /\ local = [w \in Workers |-> NoLocal]

(***************************************************************************)
(* The listing and order workflow.  Its handlers touch the collections     *)
(* car, order and notification only; POST /transactions, which touches     *)
(* transaction and reward only, is specified on its own below.             *)
(***************************************************************************)
Next ==
    \/ \E p \in CarPayloads : create_car(p)
    \/ \E p \in OrderPayloads : create_order(p)
    \/ \E id \in OrderIdStrings, s \in StatusStrings : update_order_status(id, s)

Spec == Init /\ [][Next]_vars

(***************************************************************************)
(* POST /transactions: the loyalty rule.                                   *)
(***************************************************************************)
Max(a, b) == IF a >= b THEN a ELSE b

\* Mutant: the floor of one point is missing.
Pts_NoMinimum(amount) == amount \div 10

\* pts = int(max(1, tx.amount // 10)); // rounds towards minus infinity.
Pts(amount) == Max(1, amount \div 10)

TierFor(new_points) ==
    IF new_points >= 200 THEN "Platinum"
    ELSE IF new_points >= 120 THEN "Gold"
    ELSE IF new_points >= 60 THEN "Silver"
    ELSE "Bronze"

\* existing = db["reward"].find_one({"email": email}): what the handler keeps
\* of the document it read, id 0 standing for None.
NoDoc == [id |-> 0, points |-> 0]

FindReward(rw, email) ==
    LET i == FindByEmail(rw, email) IN
    IF i = 0 THEN NoDoc ELSE [id |-> rw[i].id, points |-> rw[i].points]

\* Mutant: the tier of a new Reward is computed from its points as well.
RewardWrite_TierOnInsert(rw, email, pts, existing) ==
    IF existing.id # 0
    THEN LET new_points == existing.points + pts IN
         update_one(rw, existing.id,
                    [points |-> new_points, tier |-> TierFor(new_points)])
    ELSE create_document(rw, [Reward(email, pts) EXCEPT !.tier = TierFor(pts)])

\* The write that follows the read: update_one on the document read, or the
\* insert of a new Reward.
RewardWrite(rw, email, pts, existing) ==
    IF existing.id # 0
    THEN LET new_points == existing.points + pts IN
         update_one(rw, existing.id,
                    [points |-> new_points, tier |-> TierFor(new_points)])
    ELSE create_document(rw, Reward(email, pts))

\* The handler run from its first line to its return with no other request
\* in between, as one event loop runs an async handler that never awaits.
create_transaction(tx) ==
    LET email == tx.customer_email
        pts == Pts(tx.amount)
        existing == FindReward(reward, email)
    IN
    /\ Len(transaction) < MaxTx
    /\ transaction' = create_document(transaction, Transaction(tx))
    /\ reward' = RewardWrite(reward, email, pts, existing)
    /\ response' = Resp("create_transaction", 200, NewId(transaction))
    /\ UNCHANGED <<marketVars, workerVars>>

NextTx == \E tx \in TxPayloads : create_transaction(tx)

SpecTx == Init /\ [][NextTx]_vars

(***************************************************************************)
(* POST /transactions served by several workers on one store: each store   *)
(* call of the handler is a step, and the steps of different workers       *)
(* interleave.                                                             *)
(***************************************************************************)
\* tx_id = create_document("transaction", tx); pts = ...
TxPersist(w, tx) ==
    /\ pc[w] = "idle"
    /\ Len(transaction) < MaxTx
    /\ transaction' = create_document(transaction, Transaction(tx))
    /\ local' = [local EXCEPT ![w] =
                    [email |-> tx.customer_email, pts |-> Pts(tx.amount),
                     tx_id |-> NewId(transaction), existing |-> NoDoc]]
    /\ pc' = [pc EXCEPT ![w] = "find"]
    /\ UNCHANGED <<marketVars, reward, response>>

\* existing = db["reward"].find_one({"email": tx.customer_email})
TxFind(w) ==
    /\ pc[w] = "find"
    /\ local' = [local EXCEPT ![w].existing = FindReward(reward, local[w].email)]
    /\ pc' = [pc EXCEPT ![w] = "write"]
    /\ UNCHANGED <<marketVars, transaction, reward, response>>

\* if existing: ... update_one(...) else: create_document("reward", ...); return
TxWrite(w) ==
    /\ pc[w] = "write"
    /\ reward' = RewardWrite(reward, local[w].email, local[w].pts, local[w].existing)
    /\ response' = Resp("create_transaction", 200, local[w].tx_id)
    /\ pc' = [pc EXCEPT ![w] = "idle"]
    /\ local' = [local EXCEPT ![w] = NoLocal]
    /\ UNCHANGED <<marketVars, transaction>>

NextConc ==
    \/ \E w \in Workers, tx \in TxPayloads : TxPersist(w, tx)
    \/ \E w \in Workers : TxFind(w)
    \/ \E w \in Workers : TxWrite(w)

SpecConc == Init /\ [][NextConc]_vars

(***************************************************************************)
(* Properties of the listing and order workflow.                           *)
(***************************************************************************)
NoCarMatches(car_id) == \A i \in 1..Len(car) : car[i].id # car_id
NoOrderMatches(order_id) == \A i \in 1..Len(order) : order[i].id # order_id

IsPrefix(s, t) == Len(s) <= Len(t) /\ \A i \in 1..Len(s) : t[i] = s[i]

\* C2: create_order with a car_id that matches no stored Car fails
\* with 404 and leaves the order and notification collections unchanged.
C2_NotFound ==
    [][\A p \in OrderPayloads :
         (create_order(p) /\ OrderValid(p) /\ NoCarMatches(p.car_id))
           => /\ response'.code = 404
              /\ order' = order
              /\ notification' = notification]_vars

\* C3: every create_order that returns successfully adds exactly one Order and
\* exactly one Notification, that notification's email is the order's
\* owner_email, and no other collection is changed.
C3_OneOrderOneNotification ==
    [][\A p \in OrderPayloads :
         (create_order(p) /\ response'.code = 200)
           => /\ Len(order') = Len(order) + 1
              /\ IsPrefix(order, order')
              /\ order'[Len(order')].owner_email = p.owner_email
              /\ order'[Len(order')].car_id = p.car_id
              /\ Len(notification') = Len(notification) + 1
              /\ IsPrefix(notification, notification')
              /\ notification'[Len(notification')].email = p.owner_email
              /\ UNCHANGED <<car, transaction, reward>>]_vars

\* Two orders for two different owners were created, each with its notification.
C3_Witness ==
    /\ response.op = "create_order"
    /\ response.code = 200
    /\ Len(order) = 2
    /\ Len(notification) = 2
    /\ order[1].owner_email # order[2].owner_email
    /\ notification[2].email = order[2].owner_email

\* C4: create_car fails with 400 and stores nothing iff the Car has both
\* for_rent and for_sale false (after the schema's defaults are applied), and
\* every stored Car has for_rent or for_sale true.
C4_CarFlags ==
    /\ [](\A i \in 1..Len(car) : car[i].for_rent \/ car[i].for_sale)
    /\ [][\A p \in CarPayloads :
            create_car(p)
              => /\ response'.op = "create_car"
                 /\ (response'.code = 400)
                      <=> (Get(p, "for_rent", TRUE) = FALSE
                             /\ Get(p, "for_sale", FALSE) = FALSE)
                 /\ response'.code = 400 => UNCHANGED <<car, order, notification>>
                 /\ response'.code # 400
                      => /\ response'.code = 200
                         /\ Len(car') = Len(car) + 1
                         /\ IsPrefix(car, car')]_vars

\* A car is stored and a later create_car was refused with 400.
C4_Witness ==
    /\ response.op = "create_car"
    /\ response.code = 400
    /\ Len(car) >= 1

\* C9: update_order_status on an existing identifier sets that
\* order's status and nothing else; on an identifier that matches no order it
\* fails with 404 and leaves every order unchanged.
C9_StatusUpdate ==
    [][\A id \in OrderIdStrings, s \in StatusStrings :
         update_order_status(id, s)
           => IF NoOrderMatches(id)
              THEN response'.code = 404 /\ order' = order
              ELSE /\ response'.code = 200
                   /\ Len(order') = Len(order)
                   /\ \A i \in 1..Len(order) :
                        order'[i] = IF order[i].id = id
                                    THEN [order[i] EXCEPT !.status = s]
                                    ELSE order[i]]_vars

\* C10: the status of every stored Order is one of pending, accepted,
\* rejected, completed, and an order created from a payload without a status
\* has status pending.
C10_StatusLiteral ==
    /\ [](\A i \in 1..Len(order) : order[i].status \in StatusLiteral)
    /\ [][\A p \in OrderPayloads :
            (create_order(p) /\ response'.code = 200 /\ "status" \notin DOMAIN p)
              => order'[Len(order')].status = "pending"]_vars

(***************************************************************************)
(* Properties of the transaction and reward workflow.                      *)
(***************************************************************************)
RECURSIVE EarnedBy(_, _, _)
\* Sum of the points earned by the first n stored transactions of an email.
EarnedBy(txs, email, n) ==
    IF n = 0 THEN 0
    ELSE EarnedBy(txs, email, n - 1)
           + (IF txs[n].customer_email = email THEN Pts(txs[n].amount) ELSE 0)

\* The points the program reads for a customer (0 without a record).
PointsOf(rw, email) == FindReward(rw, email).points

HasReward(rw, email) == \E i \in 1..Len(rw) : rw[i].email = email

\* floor(amount / 10): the integer q with 10 q <= amount < 10 q + 10.
FloorTenth(amount) ==
    CHOOSE q \in -1000..1000 : 10 * q <= amount /\ amount < 10 * q + 10

Earned(amount) == IF FloorTenth(amount) > 1 THEN FloorTenth(amount) ELSE 1

\* C1: once the concurrent create_transaction requests have all completed, a
\* customer's reward points equal the sum of the points earned by the
\* customer's transactions (no update is lost).
C1_NoLostUpdate ==
    (\A w \in Workers : pc[w] = "idle")
      => \A e \in Emails :
           PointsOf(reward, e) = EarnedBy(transaction, e, Len(transaction))

\* C5: a create_transaction for an email that has a Reward with points p
\* leaves that record with points p + max(1, floor(amount / 10)) and the tier
\* of the new total (>= 200 Platinum, >= 120 Gold, >= 60 Silver, else
\* Bronze); a zero or negative amount earns exactly 1 point.
C5_ExistingReward ==
    [][\A tx \in TxPayloads :
         (create_transaction(tx) /\ HasReward(reward, tx.customer_email))
           => LET i == FindByEmail(reward, tx.customer_email)
                  total == reward[i].points + Earned(tx.amount)
              IN /\ Len(reward') = Len(reward)
                 /\ reward'[i].points = total
                 /\ tx.amount <= 0 => reward'[i].points = reward[i].points + 1
                 /\ reward'[i].tier =
                      (IF total >= 200 THEN "Platinum"
                       ELSE IF total >= 120 THEN "Gold"
                       ELSE IF total >= 60 THEN "Silver"
                       ELSE "Bronze")
                 /\ reward'[i].email = tx.customer_email
                 /\ \A j \in 1..Len(reward) : j # i => reward'[j] = reward[j]]_vars

\* A Reward reached Platinum with 201 points through updates, one of the
\* customer's transactions having a non-positive amount.
C5_Witness ==
    /\ response.op = "create_transaction"
    /\ \E i \in 1..Len(reward) :
         /\ reward[i].tier = "Platinum"
         /\ reward[i].points = 201
         /\ \E k \in 1..Len(transaction) :
              /\ transaction[k].customer_email = reward[i].email
              /\ transaction[k].amount <= 0

\* C6: a create_transaction for an email without a Reward creates exactly one
\* Reward for it, with points max(1, floor(amount / 10)) and tier Bronze
\* whatever the points are.
C6_FirstReward ==
    [][\A tx \in TxPayloads :
         (create_transaction(tx) /\ ~HasReward(reward, tx.customer_email))
           => /\ Len(reward') = Len(reward) + 1
              /\ IsPrefix(reward, reward')
              /\ reward'[Len(reward')].email = tx.customer_email
              /\ reward'[Len(reward')].points = Earned(tx.amount)
              /\ reward'[Len(reward')].tier = "Bronze"]_vars

\* A first transaction earned 100 points and its Reward is Bronze.
C6_Witness ==
    /\ response.op = "create_transaction"
    /\ Len(transaction) = 1
    /\ Len(reward) = 1
    /\ reward[1].points = 100
    /\ reward[1].tier = "Bronze"

\* C7: there is at most one Reward record per customer email.
C7_OneRewardPerEmail ==
    \A i, j \in 1..Len(reward) : i # j => reward[i].email # reward[j].email

\* C8: no step decreases the stored points of a customer's Reward.
C8_PointsNeverDecrease ==
    [][\A e \in Emails :
         HasReward(reward, e)
           => HasReward(reward', e) /\ PointsOf(reward', e) >= PointsOf(reward, e)]_vars

====
